---- MODULE Spec2Model ----
(***************************************************************************)
(* Model of the ONNX model lifecycle scripts:                              *)
(*   models/load_models.py  (register tool)                                *)
(*   models/drop_models.py  (deregister tool)                              *)
(*   models/download_models.py  (fetch tool)                               *)
(* One run of a script is a sequence of steps over the manifest            *)
(* (models.json), the artifact directory and the database registry         *)
(* (USER_MINING_MODELS).  The registry and the artifact directory persist  *)
(* between runs; everything else is per-process state.                     *)
(***************************************************************************)
EXTENDS Integers, Sequences, FiniteSets, TLC

VARIABLES
    tool,            \* which script runs: "load", "drop" or "fetch"
    manifest,        \* config["models"]: sequence of descriptors
    files,           \* files present in the artifact directory
    registry,        \* MODEL_NAME rows of USER_MINING_MODELS
    fault,           \* the backend call that raises oracledb.Error, if any
    args,            \* parsed command line
    pc,              \* position of the running process in main()
    conn,            \* "none" | "open" | "closed"
    loaded_models,   \* snapshot returned by get_loaded_models
    models_to_load,  \* load_models.main: list of descriptors
    models_to_drop,  \* drop_models.main: list of <<db_name, model_id>>
    idx,             \* number of loop iterations started
    loaded_count,
    skipped_count,
    dropped_count,
    out,             \* lines printed, as tags
    log,             \* calls on the session, in order
    exitCode,        \* process exit status, -1 while running
    run,             \* 1 for the first run, 2 for the run repeated after it
    prevRegistry,    \* registry at the end of the previous run
    prevLog,         \* log of the previous run
    models_to_download, \* download_models.main: list of descriptors
    archive,         \* entry names of the archive served at a .zip url
    written,         \* paths whose content this run wrote
    partial          \* paths holding a truncated download

vars == <<tool, manifest, files, registry, fault, args, pc, conn,
          loaded_models, models_to_load, models_to_drop, idx, loaded_count,
          skipped_count, dropped_count, out, log, exitCode, run,
          prevRegistry, prevLog, models_to_download, archive, written,
          partial>>

(***************************************************************************)
(* Bounds and input domains                                                *)
(***************************************************************************)
MaxModels == 3
MaxIds == 2
MaxAnswerLen == 2

Ids == {"a", "b"}
UnknownId == "zz"
\* the empty string given as an id on the command line
EmptyId == ""
NoneId == "None"
Names == {"MA", "MB"}
OrphanName == "ORPH"
AnswerChars == {"y", "Y", "n", " "}

\* The artifact file name ("output") of a descriptor.
OutOf(id) == IF id = "a" THEN "a.onnx" ELSE "b.onnx"

Files == {OutOf(id) : id \in Ids}

Descriptor(i, n) == [id |-> i, db_model_name |-> n, output |-> OutOf(i)]

Descriptors == {Descriptor(i, n) : i \in Ids, n \in Names}

\* model["url"]: the address and its suffix
Url(id, suffix) == <<id, suffix>>

UrlSuffixes == {".zip", ".onnx"}

\* db_model_name of a descriptor read by download_models.py, which never
\* looks at the field
NameOf(id) == IF id = "a" THEN "MA" ELSE "MB"

\* A descriptor as download_models.py reads it: with its "url".
FetchDescriptor(i, sfx) ==
    [id |-> i, db_model_name |-> NameOf(i), output |-> OutOf(i),
     url |-> Url(i, sfx)]

FetchDescriptors == {FetchDescriptor(i, sfx) : i \in Ids, sfx \in UrlSuffixes}

\* output_dir / f"{model['id']}_temp.zip"
TempZip(id) == IF id = "a" THEN "a_temp.zip" ELSE "b_temp.zip"

\* Names an archive entry can have: the artifacts' names and one that does
\* not end in ".onnx".
EntryNames == Files \cup {"README.md"}

\* name.endswith(".onnx")
EndsWithOnnx(name) == name \in Files

\* url.endswith(".zip")
EndsWithZip(url) == url[2] = ".zip"

SeqsUpTo(S, n) == UNION {[1..k -> S] : k \in 0..n}

\* The contents of models.json.  load_config returns whatever the file
\* holds: two entries may share an id or share a db_model_name.  Entries
\* that are equal in every field are left out.
Manifests == {m \in SeqsUpTo(Descriptors, MaxModels) :
                 \A i, j \in 1..Len(m) : i < j => m[i] # m[j]}

FetchManifests == {m \in SeqsUpTo(FetchDescriptors, MaxModels) :
                      \A i, j \in 1..Len(m) : i < j => m[i] # m[j]}

\* The LOAD or DROP call that the backend refuses in a scenario, by name
\* (for instance an artifact the database cannot import, a model in use).
NoFault == <<"none", "-">>

\* load_models.py issues LOAD and DROP for manifest names only
LoadFaults == {NoFault} \cup ({"LOAD", "DROP"} \X Names)

\* drop_models.py issues DROP only, for any registered name
DropFaults == {NoFault} \cup ({"DROP"} \X (Names \cup {OrphanName}))

\* download_models.py: the transfer that fails in a scenario, by descriptor
\* id.  OPEN: the url cannot be opened, nothing is written.  READ: the
\* transfer breaks after the local file was created, which stays truncated.
\* EXTRACT: the downloaded file cannot be opened as an archive.
FetchFaults == {NoFault} \cup ({"OPEN", "READ", "EXTRACT"} \X Ids)

\* sys.argv[1] of download_models.py, if given
FetchArgs ==
    {[ids |-> i, list |-> FALSE, force |-> FALSE, all |-> FALSE, yes |-> FALSE] :
        i \in SeqsUpTo(Ids \cup {UnknownId, EmptyId}, 1)}

\* get_db_connection: the password is not set (sys.exit), the connection
\* is refused (oracledb.Error), or the session is opened
ConnectOutcomes == {"ok", "password", "refused"}

Range(s) == {s[k] : k \in 1..Len(s)}

Event(op, name, i, ok) == [op |-> op, name |-> name, idx |-> i, ok |-> ok]

Line(tag, i) == [tag |-> tag, idx |-> i]

(***************************************************************************)
(* The database backend                                                    *)
(***************************************************************************)
\* DBMS_VECTOR.LOAD_ONNX_MODEL: raises when the backend fails for the name
\* or when a model of that name already exists.
LoadRaises(reg, name) == fault = <<"LOAD", name>> \/ name \in reg

\* DBMS_VECTOR.DROP_ONNX_MODEL: raises when the backend fails for the name;
\* on a name that is not registered the outcome is the backend's choice
\* (absentRaises).
DropRaises(reg, name, absentRaises) ==
    fault = <<"DROP", name>> \/ (name \notin reg /\ absentRaises)

(***************************************************************************)
(* Manifest lookups                                                        *)
(***************************************************************************)
First(S) == IF S = {} THEN 0 ELSE CHOOSE k \in S : \A j \in S : k <= j

\* index of the first descriptor with this db_model_name, 0 for None
get_model_by_db_name(config, db_model_name) ==
    First({k \in 1..Len(config) : config[k].db_model_name = db_model_name})

\* index of the first descriptor with this id, 0 for None
get_model_by_id(config, model_id) ==
    First({k \in 1..Len(config) : config[k].id = model_id})

\* load_config: json.load of models.json; the document is returned as it
\* is parsed, no field of it is looked at
load_config(doc) == [raised |-> FALSE, config |-> doc]

(***************************************************************************)
(* Initial states: the inputs of a first run                               *)
(***************************************************************************)
\* load_models.py returns from --list before model_id and --force are read.
LoadArgs ==
    {[ids |-> i, list |-> FALSE, force |-> f, all |-> FALSE, yes |-> FALSE] :
        i \in SeqsUpTo(Ids \cup {UnknownId, EmptyId}, 1), f \in BOOLEAN}
    \cup
    {[ids |-> i, list |-> TRUE, force |-> FALSE, all |-> FALSE, yes |-> FALSE] :
        i \in SeqsUpTo(Ids \cup {UnknownId}, 1)}

\* drop_models.py reads the ids one by one only when neither --list nor --all
\* is given; with --list or --all only their presence matters.
DropArgs ==
    {[ids |-> i, list |-> FALSE, force |-> FALSE, all |-> FALSE, yes |-> y] :
        i \in SeqsUpTo(Ids \cup {UnknownId}, MaxIds), y \in BOOLEAN}
    \cup
    {[ids |-> i, list |-> l, force |-> FALSE, all |-> a, yes |-> y] :
        i \in SeqsUpTo(Ids \cup {UnknownId}, 1),
        l \in BOOLEAN, a \in BOOLEAN, y \in BOOLEAN}

\* A refused DROP is part of a scenario only where the run can meet it: on
\* a registered name, and in load_models.py under --force.
Init ==
    /\ tool \in {"load", "drop", "fetch"}
    /\ \/ /\ tool = "load"
          /\ manifest \in {load_config(doc).config : doc \in Manifests}
          /\ archive = {}
          /\ files \in SUBSET Files
          /\ registry \in SUBSET Names
          /\ args \in LoadArgs
          /\ fault \in LoadFaults
          /\ fault[1] = "DROP" => (args.force /\ fault[2] \in registry)
       \/ /\ tool = "drop"
          /\ manifest \in {load_config(doc).config : doc \in Manifests}
          /\ archive = {}
          /\ files = Files
          /\ registry \in SUBSET (Names \cup {OrphanName})
          /\ args \in DropArgs
          /\ fault \in DropFaults
          /\ fault[1] = "DROP" => fault[2] \in registry
       \/ /\ tool = "fetch"
          /\ manifest \in {load_config(doc).config : doc \in FetchManifests}
          /\ archive \in SUBSET EntryNames
          /\ files \in SUBSET Files
          /\ registry = {}
          /\ args \in FetchArgs
          /\ fault \in FetchFaults
    /\ pc = "start"
    /\ conn = "none"
    /\ loaded_models = {}
    /\ models_to_load = <<>>
    /\ models_to_drop = <<>>
    /\ idx = 0
    /\ loaded_count = 0
    /\ skipped_count = 0
    /\ dropped_count = 0
    /\ out = <<>>
    /\ log = <<>>
    /\ exitCode = -1
    /\ run = 1
    /\ prevRegistry = {}
    /\ prevLog = <<>>
    /\ models_to_download = <<>>
    /\ written = {}
    /\ partial = {}

\* what download_models.py alone writes
fetched == <<models_to_download, archive, written, partial>>

env == <<tool, manifest, files, fault, args, run, prevRegistry, prevLog,
         fetched>>

counters == <<loaded_count, skipped_count, dropped_count>>
plans == <<models_to_load, models_to_drop>>

(***************************************************************************)
(* load_models.py                                                          *)
(***************************************************************************)
\* drop_model(conn, model_name), called for the target at position i
drop_model(reg, model_name, i, absentRaises) ==
    IF DropRaises(reg, model_name, absentRaises)
    THEN [raised |-> TRUE, reg |-> reg,
          log |-> <<Event("DROP", model_name, i, FALSE)>>, out |-> <<>>]
    ELSE [raised |-> FALSE, reg |-> reg \ {model_name},
          log |-> <<Event("DROP", model_name, i, TRUE)>>,
          out |-> <<Line("DROP", i)>>]

\* load_model(conn, model, models_dir) for the target at position i;
\* ret is the returned boolean (TRUE: loaded, FALSE: skipped)
load_model(reg, present, model, i) ==
    IF model.output \notin present
    THEN [raised |-> FALSE, ret |-> FALSE, reg |-> reg, log |-> <<>>,
          out |-> <<Line("SKIP_NOFILE", i)>>]
    ELSE IF LoadRaises(reg, model.db_model_name)
    THEN [raised |-> TRUE, ret |-> FALSE, reg |-> reg,
          log |-> <<Event("LOAD", model.db_model_name, i, FALSE)>>,
          out |-> <<>>]
    ELSE [raised |-> FALSE, ret |-> TRUE,
          reg |-> reg \cup {model.db_model_name},
          log |-> <<Event("LOAD", model.db_model_name, i, TRUE)>>,
          out |-> <<Line("LOAD", i)>>]

\* get_db_connection and the except clause around it
LoadConnect ==
    /\ tool = "load" /\ pc = "start"
    /\ \E outcome \in ConnectOutcomes :
         IF outcome # "ok"
         THEN /\ out' = Append(out, Line("ERR_CONNECT", 0))
              /\ exitCode' = 1
              /\ pc' = "done"
              /\ UNCHANGED <<conn, log>>
         ELSE /\ conn' = "open"
              /\ log' = Append(log, Event("OPEN", "-", 0, TRUE))
              /\ pc' = "connected"
              /\ UNCHANGED <<out, exitCode>>
    /\ UNCHANGED <<env, registry, loaded_models, plans, idx, counters>>

\* loaded_models = get_loaded_models(conn); the query may raise
LoadGetLoaded ==
    /\ tool = "load" /\ pc = "connected"
    /\ \E ok \in BOOLEAN :
         IF ~ok
         THEN /\ log' = Append(log, Event("QUERY", "-", 0, FALSE))
              /\ exitCode' = 1
              /\ pc' = "finally"
              /\ UNCHANGED loaded_models
         ELSE /\ log' = Append(log, Event("QUERY", "-", 0, TRUE))
              /\ loaded_models' = registry
              /\ pc' = "snap"
              /\ UNCHANGED exitCode
    /\ UNCHANGED <<env, registry, conn, plans, idx, counters, out>>

\* --list
LoadList ==
    /\ tool = "load" /\ pc = "snap" /\ args.list
    /\ out' = Append(out, Line("LIST", 0))
    /\ exitCode' = 0
    /\ pc' = "finally"
    /\ UNCHANGED <<env, registry, conn, loaded_models, plans, idx, counters, log>>

\* "if args.model_id:" is the truth of the value: false for None (no id
\* given) and for the empty string
ModelIdGiven(ids) == ids # <<>> /\ ids[1] # EmptyId

\* the targets selected by the optional model_id
LoadTargets(config, ids) ==
    IF ModelIdGiven(ids)
    THEN LET P(m) == m.id = ids[1] IN SelectSeq(config, P)
    ELSE config

\* model_id given and no descriptor has it: sys.exit(1)
LoadNotFound ==
    /\ tool = "load" /\ pc = "snap" /\ ~args.list
    /\ ModelIdGiven(args.ids) /\ LoadTargets(manifest, args.ids) = <<>>
    /\ out' = out \o <<Line("ERR_NOTFOUND", 0), Line("LIST", 0)>>
    /\ exitCode' = 1
    /\ pc' = "finally"
    /\ UNCHANGED <<env, registry, conn, loaded_models, plans, idx, counters, log>>

LoadResolve ==
    /\ tool = "load" /\ pc = "snap" /\ ~args.list
    /\ ~(ModelIdGiven(args.ids) /\ LoadTargets(manifest, args.ids) = <<>>)
    /\ models_to_load' = LoadTargets(manifest, args.ids)
    /\ out' = Append(out, Line("START", 0))
    /\ pc' = "loop"
    /\ UNCHANGED <<env, registry, conn, loaded_models, models_to_drop, idx,
                   counters, log, exitCode>>

\* one iteration of "for model in models_to_load"; the result of the
\* iteration for the target at position i
LoadIteration(reg, snapshot, present, force, model, i, absentRaises) ==
    LET db_name == model.db_model_name
        hdr == <<Line("HDR", i)>>
        d == IF db_name \in snapshot /\ force
             THEN drop_model(reg, db_name, i, absentRaises)
             ELSE [raised |-> FALSE, reg |-> reg, log |-> <<>>, out |-> <<>>]
        l == load_model(d.reg, present, model, i)
    IN  IF db_name \in snapshot /\ ~force
        THEN [raised |-> FALSE, loaded |-> 0, skipped |-> 1, reg |-> reg,
              log |-> <<>>, out |-> hdr \o <<Line("SKIP_LOADED", i)>>]
        ELSE IF d.raised
        THEN [raised |-> TRUE, loaded |-> 0, skipped |-> 0, reg |-> d.reg,
              log |-> d.log, out |-> hdr \o d.out]
        ELSE [raised |-> l.raised,
              loaded |-> IF ~l.raised /\ l.ret THEN 1 ELSE 0,
              skipped |-> IF ~l.raised /\ ~l.ret THEN 1 ELSE 0,
              reg |-> l.reg, log |-> d.log \o l.log,
              out |-> hdr \o d.out \o l.out]

\* the loop without the try/finally around it: an exception ends the process
LoadAfter_NoFinally(raised) == IF raised THEN "done" ELSE "loop"

\* what follows an iteration: the next iteration, or the exception leaving
\* the loop for the finally clause
LoadAfter(raised) == IF raised THEN "finally" ELSE "loop"

LoadStep ==
    /\ tool = "load" /\ pc = "loop" /\ idx < Len(models_to_load)
    /\ \E absentRaises \in BOOLEAN :
         LET r == LoadIteration(registry, loaded_models, files, args.force,
                                models_to_load[idx + 1], idx + 1, absentRaises)
         IN  /\ idx' = idx + 1
             /\ registry' = r.reg
             /\ log' = log \o r.log
             /\ out' = out \o r.out
             /\ loaded_count' = loaded_count + r.loaded
             /\ skipped_count' = skipped_count + r.skipped
             /\ pc' = LoadAfter(r.raised)
             /\ exitCode' = IF r.raised THEN 1 ELSE exitCode
    /\ UNCHANGED <<env, conn, loaded_models, plans, dropped_count>>

LoadSummary ==
    /\ tool = "load" /\ pc = "loop" /\ idx = Len(models_to_load)
    /\ out' = Append(out, Line("SUMMARY", 0))
    /\ exitCode' = 0
    /\ pc' = "finally"
    /\ UNCHANGED <<env, registry, conn, loaded_models, plans, idx, counters, log>>

\* finally: conn.close()
LoadClose ==
    /\ tool = "load" /\ pc = "finally"
    /\ conn' = "closed"
    /\ log' = Append(log, Event("CLOSE", "-", 0, TRUE))
    /\ pc' = "done"
    /\ UNCHANGED <<env, registry, loaded_models, plans, idx, counters, out,
                   exitCode>>

(***************************************************************************)
(* load_models.py run a second time with the same command line, once a     *)
(* first process that read the registry and was asked to load has ended    *)
(***************************************************************************)
Rerun ==
    /\ tool = "load" /\ pc = "done" /\ run = 1
    /\ ~args.list
    /\ \E k \in 1..Len(log) : log[k].op = "QUERY" /\ log[k].ok
    /\ run' = run + 1
    /\ prevRegistry' = registry
    /\ prevLog' = log
    /\ pc' = "start"
    /\ conn' = "none"
    /\ loaded_models' = {}
    /\ models_to_load' = <<>>
    /\ models_to_drop' = <<>>
    /\ idx' = 0
    /\ loaded_count' = 0
    /\ skipped_count' = 0
    /\ dropped_count' = 0
    /\ out' = <<>>
    /\ log' = <<>>
    /\ exitCode' = -1
    /\ UNCHANGED <<tool, manifest, files, registry, fault, args, fetched>>

LoadNext ==
    \/ LoadConnect
    \/ LoadGetLoaded
    \/ LoadList
    \/ LoadNotFound
    \/ LoadResolve
    \/ LoadStep
    \/ LoadSummary
    \/ LoadClose

(***************************************************************************)
(* drop_models.py                                                          *)
(***************************************************************************)
\* argument validation before the connection: sys.exit(1)
DropUsageError(a) ==
    \/ (~a.list /\ ~a.all /\ a.ids = <<>>)
    \/ (a.all /\ a.ids # <<>>)

DropUsage ==
    /\ tool = "drop" /\ pc = "start"
    /\ DropUsageError(args)
    /\ out' = Append(out, Line("USAGE", 0))
    /\ exitCode' = 1
    /\ pc' = "done"
    /\ UNCHANGED <<env, registry, conn, loaded_models, plans, idx, counters, log>>

DropConnect ==
    /\ tool = "drop" /\ pc = "start"
    /\ ~DropUsageError(args)
    /\ \E outcome \in ConnectOutcomes :
         IF outcome # "ok"
         THEN /\ out' = Append(out, Line("ERR_CONNECT", 0))
              /\ exitCode' = 1
              /\ pc' = "done"
              /\ UNCHANGED <<conn, log>>
         ELSE /\ conn' = "open"
              /\ log' = Append(log, Event("OPEN", "-", 0, TRUE))
              /\ pc' = "connected"
              /\ UNCHANGED <<out, exitCode>>
    /\ UNCHANGED <<env, registry, loaded_models, plans, idx, counters>>

DropGetLoaded ==
    /\ tool = "drop" /\ pc = "connected"
    /\ \E ok \in BOOLEAN :
         IF ~ok
         THEN /\ log' = Append(log, Event("QUERY", "-", 0, FALSE))
              /\ exitCode' = 1
              /\ pc' = "finally"
              /\ UNCHANGED loaded_models
         ELSE /\ log' = Append(log, Event("QUERY", "-", 0, TRUE))
              /\ loaded_models' = registry
              /\ pc' = "snap"
              /\ UNCHANGED exitCode
    /\ UNCHANGED <<env, registry, conn, plans, idx, counters, out>>

DropList ==
    /\ tool = "drop" /\ pc = "snap" /\ args.list
    /\ out' = Append(out, Line("LIST", 0))
    /\ exitCode' = 0
    /\ pc' = "finally"
    /\ UNCHANGED <<env, registry, conn, loaded_models, plans, idx, counters, log>>

\* the lookup by id used where the lookup by db_model_name is meant
IdOfName_ById(config, db_name) ==
    IF get_model_by_id(config, db_name) = 0 THEN NoneId
    ELSE config[get_model_by_id(config, db_name)].id

\* the id carried by a plan item of --all: the id of the first descriptor
\* with that db_model_name, NoneId for an orphan
IdOfName(config, db_name) ==
    IF get_model_by_db_name(config, db_name) = 0 THEN NoneId
    ELSE config[get_model_by_db_name(config, db_name)].id

\* --all: one item per name of the snapshot, in the iteration order of the set
PlanAll(config, order) ==
    [k \in 1..Len(order) |-> <<order[k], IdOfName(config, order[k])>>]

Orders(S) == {o \in [1..Cardinality(S) -> S] : Range(o) = S}

DropResolveAll ==
    /\ tool = "drop" /\ pc = "snap" /\ ~args.list /\ args.all
    /\ \E order \in Orders(loaded_models) :
           models_to_drop' = PlanAll(manifest, order)
    /\ pc' = "planned"
    /\ UNCHANGED <<env, registry, conn, loaded_models, models_to_load, idx,
                   counters, out, log, exitCode>>

\* the loop over args.model_ids with an id that is not loaded treated like
\* an unknown id
RECURSIVE PlanIds_NotLoadedFatal(_, _, _, _, _, _)
PlanIds_NotLoadedFatal(config, ids, snapshot, k, plan, warn) ==
    IF k > Len(ids) THEN [notfound |-> FALSE, plan |-> plan, out |-> warn]
    ELSE IF get_model_by_id(config, ids[k]) = 0
    THEN [notfound |-> TRUE, plan |-> plan,
          out |-> Append(warn, Line("ERR_NOTFOUND", k))]
    ELSE LET db_name == config[get_model_by_id(config, ids[k])].db_model_name
         IN  IF db_name \notin snapshot
             THEN [notfound |-> TRUE, plan |-> plan,
                   out |-> Append(warn, Line("WARN_NOTLOADED", k))]
             ELSE PlanIds_NotLoadedFatal(config, ids, snapshot, k + 1,
                                         Append(plan, <<db_name, ids[k]>>), warn)

\* explicit ids: the loop over args.model_ids from position k on, with the
\* plan built so far; notfound is the sys.exit(1) at an id with no descriptor
RECURSIVE PlanIds(_, _, _, _, _, _)
PlanIds(config, ids, snapshot, k, plan, warn) ==
    IF k > Len(ids) THEN [notfound |-> FALSE, plan |-> plan, out |-> warn]
    ELSE IF get_model_by_id(config, ids[k]) = 0
    THEN [notfound |-> TRUE, plan |-> plan,
          out |-> Append(warn, Line("ERR_NOTFOUND", k))]
    ELSE LET db_name == config[get_model_by_id(config, ids[k])].db_model_name
         IN  IF db_name \notin snapshot
             THEN PlanIds(config, ids, snapshot, k + 1, plan,
                          Append(warn, Line("WARN_NOTLOADED", k)))
             ELSE PlanIds(config, ids, snapshot, k + 1,
                          Append(plan, <<db_name, ids[k]>>), warn)

DropNotFound ==
    /\ tool = "drop" /\ pc = "snap" /\ ~args.list /\ ~args.all
    /\ LET r == PlanIds(manifest, args.ids, loaded_models, 1, <<>>, <<>>)
       IN  /\ r.notfound
           /\ models_to_drop' = r.plan
           /\ out' = out \o r.out
    /\ exitCode' = 1
    /\ pc' = "finally"
    /\ UNCHANGED <<env, registry, conn, loaded_models, models_to_load, idx,
                   counters, log>>

DropResolveIds ==
    /\ tool = "drop" /\ pc = "snap" /\ ~args.list /\ ~args.all
    /\ LET r == PlanIds(manifest, args.ids, loaded_models, 1, <<>>, <<>>)
       IN  /\ ~r.notfound
           /\ models_to_drop' = r.plan
           /\ out' = out \o r.out
    /\ pc' = "planned"
    /\ UNCHANGED <<env, registry, conn, loaded_models, models_to_load, idx,
                   counters, log, exitCode>>

\* "if not models_to_drop": nothing to delete
DropEmpty ==
    /\ tool = "drop" /\ pc = "planned" /\ models_to_drop = <<>>
    /\ out' = Append(out, Line("NOTHING", 0))
    /\ exitCode' = 0
    /\ pc' = "finally"
    /\ UNCHANGED <<env, registry, conn, loaded_models, plans, idx, counters, log>>

\* input(...).strip().lower() == "y", on the typed line as a sequence of
\* characters
RECURSIVE LStrip(_)
LStrip(s) == IF s # <<>> /\ Head(s) = " " THEN LStrip(Tail(s)) ELSE s

RECURSIVE RStrip(_)
RStrip(s) ==
    IF s # <<>> /\ s[Len(s)] = " " THEN RStrip(SubSeq(s, 1, Len(s) - 1)) ELSE s

Strip(s) == RStrip(LStrip(s))

Lower(s) == [k \in 1..Len(s) |-> IF s[k] = "Y" THEN "y" ELSE s[k]]

Interrupt == <<"^C">>

Answers == SeqsUpTo(AnswerChars, MaxAnswerLen) \cup {Interrupt}

\* confirm_deletion: TRUE to go on, FALSE to cancel; KeyboardInterrupt and
\* EOFError are caught and cancel
confirm_deletion(answer) ==
    IF answer = Interrupt THEN FALSE ELSE Lower(Strip(answer)) = <<"y">>

\* the "cancelled" lines of a declined confirmation: one printed by
\* confirm_deletion on KeyboardInterrupt / EOFError, one by main
CancelLines(answer) ==
    IF answer = Interrupt THEN <<Line("CANCELLED", 0), Line("CANCELLED", 0)>>
    ELSE <<Line("CANCELLED", 0)>>

\* the prompt never shown, as if -y were always given
Prompted_Never(yes) == FALSE

\* "if not args.yes and not confirm_deletion(models_to_drop)": whether the
\* prompt is shown
Prompted(yes) == ~yes

DropConfirm ==
    /\ tool = "drop" /\ pc = "planned" /\ models_to_drop # <<>>
    /\ IF Prompted(args.yes)
       THEN \E answer \in Answers :
              /\ log' = Append(log, Event("CONFIRM", "-", 0,
                                          confirm_deletion(answer)))
              /\ IF confirm_deletion(answer)
                 THEN /\ pc' = "loop"
                      /\ UNCHANGED <<out, exitCode>>
                 ELSE /\ out' = out \o CancelLines(answer)
                      /\ exitCode' = 0
                      /\ pc' = "finally"
       ELSE /\ pc' = "loop"
            /\ UNCHANGED <<log, out, exitCode>>
    /\ UNCHANGED <<env, registry, conn, loaded_models, plans, idx, counters>>

\* one iteration of "for db_name, model_id in models_to_drop"
DropIteration(reg, item, i, absentRaises) ==
    LET d == drop_model(reg, item[1], i, absentRaises)
    IN  [raised |-> d.raised, dropped |-> IF d.raised THEN 0 ELSE 1,
         reg |-> d.reg, log |-> d.log,
         out |-> <<Line("HDR", i)>> \o d.out]

\* what follows an iteration: the next iteration, or the exception leaving
\* the loop for the finally clause
DropAfter(raised) == IF raised THEN "finally" ELSE "loop"

DropStep ==
    /\ tool = "drop" /\ pc = "loop" /\ idx < Len(models_to_drop)
    /\ \E absentRaises \in BOOLEAN :
         LET r == DropIteration(registry, models_to_drop[idx + 1], idx + 1,
                                absentRaises)
         IN  /\ idx' = idx + 1
             /\ registry' = r.reg
             /\ log' = log \o r.log
             /\ out' = out \o r.out
             /\ dropped_count' = dropped_count + r.dropped
             /\ pc' = DropAfter(r.raised)
             /\ exitCode' = IF r.raised THEN 1 ELSE exitCode
    /\ UNCHANGED <<env, conn, loaded_models, plans, loaded_count, skipped_count>>

DropSummary ==
    /\ tool = "drop" /\ pc = "loop" /\ idx = Len(models_to_drop)
    /\ out' = Append(out, Line("SUMMARY", 0))
    /\ exitCode' = 0
    /\ pc' = "finally"
    /\ UNCHANGED <<env, registry, conn, loaded_models, plans, idx, counters, log>>

DropClose ==
    /\ tool = "drop" /\ pc = "finally"
    /\ conn' = "closed"
    /\ log' = Append(log, Event("CLOSE", "-", 0, TRUE))
    /\ pc' = "done"
    /\ UNCHANGED <<env, registry, loaded_models, plans, idx, counters, out,
                   exitCode>>

DropNext ==
    \/ DropUsage
    \/ DropConnect
    \/ DropGetLoaded
    \/ DropList
    \/ DropResolveAll
    \/ DropNotFound
    \/ DropResolveIds
    \/ DropEmpty
    \/ DropConfirm
    \/ DropStep
    \/ DropSummary
    \/ DropClose

(***************************************************************************)
(* download_models.py                                                      *)
(***************************************************************************)
\* urllib.request.urlretrieve(url, target) for the descriptor with this id
urlretrieve(present, done, cut, id, target) ==
    IF fault = <<"OPEN", id>>
    THEN [raised |-> TRUE, files |-> present, written |-> done,
          partial |-> cut]
    ELSE IF fault = <<"READ", id>>
    THEN [raised |-> TRUE, files |-> present \cup {target},
          written |-> done \cup {target}, partial |-> cut \cup {target}]
    ELSE [raised |-> FALSE, files |-> present \cup {target},
          written |-> done \cup {target}, partial |-> cut \ {target}]

\* download_model(model, output_dir) for the target at position i
download_model(present, done, cut, model, i) ==
    IF model.output \in present
    THEN [raised |-> FALSE, files |-> present, written |-> done,
          partial |-> cut, out |-> <<Line("SKIP_EXISTS", i)>>]
    ELSE IF EndsWithZip(model.url)
    THEN LET zip_path == TempZip(model.id)
             r == urlretrieve(present, done, cut, model.id, zip_path)
             extracted == {n \in archive : EndsWithOnnx(n)}
         IN  IF r.raised
             THEN [raised |-> TRUE, files |-> r.files, written |-> r.written,
                   partial |-> r.partial, out |-> <<Line("DOWNLOADING", i)>>]
             ELSE IF fault = <<"EXTRACT", model.id>>
             THEN [raised |-> TRUE, files |-> r.files, written |-> r.written,
                   partial |-> r.partial,
                   out |-> <<Line("DOWNLOADING", i), Line("EXTRACTING", i)>>]
             ELSE [raised |-> FALSE,
                   files |-> (r.files \cup extracted) \ {zip_path},
                   written |-> r.written \cup extracted,
                   partial |-> r.partial \ extracted,
                   out |-> <<Line("DOWNLOADING", i), Line("EXTRACTING", i),
                             Line("OK", i)>>]
    ELSE LET r == urlretrieve(present, done, cut, model.id, model.output)
         IN  IF r.raised
             THEN [raised |-> TRUE, files |-> r.files, written |-> r.written,
                   partial |-> r.partial, out |-> <<Line("DOWNLOADING", i)>>]
             ELSE [raised |-> FALSE, files |-> r.files, written |-> r.written,
                   partial |-> r.partial,
                   out |-> <<Line("DOWNLOADING", i), Line("OK", i)>>]

\* target_id = sys.argv[1] if len(sys.argv) > 1 else None
FetchTargets ==
    IF args.ids = <<>> THEN manifest
    ELSE SelectSeq(manifest, LAMBDA m : m.id = args.ids[1])

\* main: the selection is empty
FetchNotFound ==
    /\ tool = "fetch" /\ pc = "start"
    /\ FetchTargets = <<>>
    /\ out' = out \o <<Line("ERR_NOTFOUND", 0)>>
    /\ exitCode' = 1
    /\ pc' = "done"
    /\ UNCHANGED <<tool, manifest, files, registry, fault, args, conn,
                   loaded_models, plans, idx, counters, log, run,
                   prevRegistry, prevLog, fetched>>

\* main: the selection and the header line
FetchResolve ==
    /\ tool = "fetch" /\ pc = "start"
    /\ FetchTargets # <<>>
    /\ models_to_download' = FetchTargets
    /\ out' = out \o <<Line("HEADER", Len(FetchTargets))>>
    /\ pc' = "loop"
    /\ UNCHANGED <<tool, manifest, files, registry, fault, args, conn,
                   loaded_models, plans, idx, counters, log, exitCode, run,
                   prevRegistry, prevLog, archive, written, partial>>

\* main: one iteration of "for model in models_to_download"; an exception
\* of download_model ends the process
FetchStep ==
    /\ tool = "fetch" /\ pc = "loop"
    /\ idx < Len(models_to_download)
    /\ LET i == idx + 1
           r == download_model(files, written, partial,
                               models_to_download[i], i)
       IN  /\ idx' = i
           /\ files' = r.files
           /\ written' = r.written
           /\ partial' = r.partial
           /\ IF r.raised
              THEN /\ out' = out \o r.out \o <<Line("TRACEBACK", i)>>
                   /\ exitCode' = 1
                   /\ pc' = "done"
              ELSE /\ out' = out \o r.out
                   /\ UNCHANGED <<exitCode, pc>>
    /\ UNCHANGED <<tool, manifest, registry, fault, args, conn,
                   loaded_models, plans, counters, log, run, prevRegistry,
                   prevLog, models_to_download, archive>>

\* main: print("\nDone!")
FetchDone ==
    /\ tool = "fetch" /\ pc = "loop"
    /\ idx = Len(models_to_download)
    /\ out' = out \o <<Line("DONE", 0)>>
    /\ exitCode' = 0
    /\ pc' = "done"
    /\ UNCHANGED <<tool, manifest, files, registry, fault, args, conn,
                   loaded_models, plans, idx, counters, log, run,
                   prevRegistry, prevLog, fetched>>

FetchNext ==
    \/ FetchNotFound
    \/ FetchResolve
    \/ FetchStep
    \/ FetchDone

Next == LoadNext \/ Rerun \/ DropNext \/ FetchNext

Spec == Init /\ [][Next]_vars

InitLoad == Init /\ tool = "load"
NextLoad == LoadNext \/ Rerun
SpecLoad == InitLoad /\ [][NextLoad]_vars

InitDrop == Init /\ tool = "drop"
NextDrop == DropNext
SpecDrop == InitDrop /\ [][NextDrop]_vars

InitFetch == Init /\ tool = "fetch"
NextFetch == FetchNext
SpecFetch == InitFetch /\ [][NextFetch]_vars


TypeOK ==
    /\ tool \in {"load", "drop", "fetch"}
    /\ written \subseteq files \cup {TempZip(id) : id \in Ids}
    /\ partial \subseteq written
    /\ pc \in {"start", "connected", "snap", "planned", "loop", "finally", "done"}
    /\ conn \in {"none", "open", "closed"}
    /\ exitCode \in {-1, 0, 1}
    /\ run \in {1, 2}

(***************************************************************************)
(* Vocabulary of the properties                                            *)
(***************************************************************************)
IsCall(e) == e.op \in {"LOAD", "DROP"}

\* the registry calls issued in the iteration for the target at position i
CallsAt(l, i) == SelectSeq(l, LAMBDA e : IsCall(e) /\ e.idx = i)

HasEvent(l, op, i) == \E k \in 1..Len(l) : l[k].op = op /\ l[k].idx = i

HasOkEvent(l, op, i) ==
    \E k \in 1..Len(l) : l[k].op = op /\ l[k].idx = i /\ l[k].ok

HasLine(o, tag, i) == \E k \in 1..Len(o) : o[k] = Line(tag, i)

CountOp(l, op) == Cardinality({k \in 1..Len(l) : l[k].op = op})

FailedCalls(l) == {k \in 1..Len(l) : IsCall(l[k]) /\ ~l[k].ok}

\* the run got past the registry query and was not a --list run
Resolved == /\ HasOkEvent(log, "QUERY", 0)
            /\ ~args.list
            /\ pc \in {"planned", "loop", "finally", "done"}

UnknownRequested ==
    \E k \in 1..Len(args.ids) :
        \A j \in 1..Len(manifest) : manifest[j].id # args.ids[k]

(***************************************************************************)
(* C1  Register tool, partial-failure isolation: when the LOAD or the      *)
(* forced DROP call of the target at position k raises, the targets after  *)
(* k (when there are any) are still attempted and the run prints its       *)
(* summary.                                                                *)
(***************************************************************************)
C1_PartialFailureIsolation ==
    (tool = "load" /\ pc = "done"
       /\ \E k \in FailedCalls(log) : log[k].idx < Len(models_to_load)) =>
        /\ \A i \in 1..Len(models_to_load) : HasLine(out, "HDR", i)
        /\ HasLine(out, "SUMMARY", 0)

(***************************************************************************)
(* C2  Register tool with --force: a target whose db_model_name is in the  *)
(* registry at the start of the run gets exactly one DROP followed by      *)
(* exactly one LOAD of that name, and the name is registered at the end,   *)
(* whether or not the artifact file is present.  Stated for runs in which  *)
(* no backend call is made to fail.                                        *)
(***************************************************************************)
C2_ForceReplace ==
    (tool = "load" /\ args.force /\ pc = "done" /\ fault = NoFault
       /\ Resolved) =>
        \A i \in 1..Len(models_to_load) :
            LET db_name == models_to_load[i].db_model_name
            IN  db_name \in loaded_models =>
                  /\ CallsAt(log, i) = <<Event("DROP", db_name, i, TRUE),
                                         Event("LOAD", db_name, i, TRUE)>>
                  /\ db_name \in registry

(***************************************************************************)
(* C3  Register tool without --force, run twice in a row: the registry     *)
(* after the second run equals the registry after the first, and a target  *)
(* the first run registered is skipped as already loaded in the second     *)
(* run with no LOAD or DROP call.  Stated for two runs that both got       *)
(* their connection and their registry snapshot.                           *)
(***************************************************************************)
C3_RegisterIdempotent ==
    (tool = "load" /\ ~args.force /\ run = 2 /\ pc = "done"
       /\ HasOkEvent(prevLog, "QUERY", 0) /\ HasOkEvent(log, "QUERY", 0)) =>
        /\ registry = prevRegistry
        /\ \A i \in 1..Len(models_to_load) :
               HasOkEvent(prevLog, "LOAD", i) =>
                   /\ HasLine(out, "SKIP_LOADED", i)
                   /\ CallsAt(log, i) = <<>>

(***************************************************************************)
(* C4  Deregister tool, failure isolation: when the DROP call of item k    *)
(* raises, the DROP calls of the items after k are still issued, and the   *)
(* run reports succeeded and failed counts that add up to the plan length. *)
(***************************************************************************)
C4_DropFailureIsolation ==
    (tool = "drop" /\ pc = "done"
       /\ \E k \in FailedCalls(log) : log[k].idx < Len(models_to_drop)) =>
        /\ \A i \in 1..Len(models_to_drop) : HasEvent(log, "DROP", i)
        /\ HasLine(out, "SUMMARY", 0)
        /\ dropped_count + Cardinality(FailedCalls(log)) = Len(models_to_drop)

(***************************************************************************)
(* C5  An explicit id with no descriptor is fatal with zero mutations: in  *)
(* a deregister request (explicit ids, no --list) with an unknown id at    *)
(* any position, and in a register request (no --list) with an unknown     *)
(* id, no LOAD or DROP call is ever issued, the registry is what the run   *)
(* found, and the process ends with a non-zero status.                     *)
(***************************************************************************)
C5_UnknownIdFatal ==
    (~args.list /\ ~args.all /\ UnknownRequested) =>
        /\ \A k \in 1..Len(log) : ~IsCall(log[k])
        /\ HasOkEvent(log, "QUERY", 0) => registry = loaded_models
        /\ pc = "done" => exitCode = 1

(***************************************************************************)
(* C6  Deregister tool with --all: the plan holds every name of the        *)
(* registry snapshot exactly once and nothing else; an item carries the    *)
(* id of the (first) descriptor with that db_model_name, and carries no id *)
(* exactly when no descriptor has that db_model_name.                      *)
(***************************************************************************)
C6_DropAllPlan ==
    (tool = "drop" /\ args.all /\ Resolved) =>
        /\ Len(models_to_drop) = Cardinality(loaded_models)
        /\ {models_to_drop[i][1] : i \in 1..Len(models_to_drop)} = loaded_models
        /\ \A i \in 1..Len(models_to_drop) :
             LET db_name == models_to_drop[i][1]
                 model_id == models_to_drop[i][2]
                 known == {k \in 1..Len(manifest) :
                              manifest[k].db_model_name = db_name}
             IN  /\ (model_id = NoneId) <=> (known = {})
                 /\ model_id # NoneId =>
                      \E k \in known : /\ manifest[k].id = model_id
                                       /\ \A j \in known : k <= j

C6_Witness ==
    /\ tool = "drop" /\ args.all /\ pc = "done" /\ exitCode = 0
    /\ \E i, j \in 1..Len(models_to_drop) :
          /\ models_to_drop[i][2] = NoneId
          /\ models_to_drop[j][2] # NoneId
    /\ dropped_count = Len(models_to_drop)

(***************************************************************************)
(* C7  Deregister tool without -y: every DROP call comes after a           *)
(* confirmation that returned true; the confirmation is asked at most once *)
(* per run; after a confirmation that returned false (answer other than    *)
(* y, interrupt, end of input) the run issues no DROP call.                *)
(***************************************************************************)
C7_ConfirmationGate ==
    (tool = "drop" /\ ~args.yes) =>
        /\ \A k \in 1..Len(log) :
               log[k].op = "DROP" =>
                   \E j \in 1..(k - 1) : log[j].op = "CONFIRM" /\ log[j].ok
        /\ CountOp(log, "CONFIRM") <= 1
        /\ (\E j \in 1..Len(log) : log[j].op = "CONFIRM" /\ ~log[j].ok) =>
               /\ CountOp(log, "DROP") = 0
               /\ pc \in {"finally", "done"}
               /\ registry = loaded_models

C7_Witness ==
    /\ tool = "drop" /\ ~args.yes /\ pc = "done"
    /\ Len(models_to_drop) >= 2
    /\ dropped_count = Len(models_to_drop)
    /\ CountOp(log, "CONFIRM") = 1

(***************************************************************************)
(* C8  Deregister tool, duplicate ids: when an id is given more than once, *)
(* the plan holds its registry name once, at most one DROP call is issued  *)
(* for that name, and the dropped count counts it once.                    *)
(***************************************************************************)
C8_DedupTargets ==
    (tool = "drop" /\ ~args.all /\ Resolved) =>
        \A p, q \in 1..Len(args.ids) :
            (p < q /\ args.ids[p] = args.ids[q]) =>
                LET db_name == manifest[get_model_by_id(manifest, args.ids[p])]
                                   .db_model_name
                    items == {i \in 1..Len(models_to_drop) :
                                 models_to_drop[i][1] = db_name}
                    drops == {k \in 1..Len(log) :
                                 log[k].op = "DROP" /\ log[k].name = db_name}
                IN  get_model_by_id(manifest, args.ids[p]) # 0 =>
                      /\ Cardinality(items) <= 1
                      /\ Cardinality(drops) <= 1
                      /\ dropped_count <= Cardinality(
                           {models_to_drop[i][1] : i \in 1..Len(models_to_drop)})

(***************************************************************************)
(* C9  Register tool without --force: at the end of a run, every target    *)
(* whose db_model_name is not in the snapshot (and whose LOAD the backend  *)
(* does not refuse) is registered exactly when its artifact file is        *)
(* present; a target gone through with its file absent is skipped with no  *)
(* call; the registry is the snapshot plus the names loaded; and a         *)
(* register run fetches nothing.                                           *)
(***************************************************************************)
C9_LoadDirection ==
    (tool = "load" /\ ~args.force) =>
        /\ written = {}
        /\ \A i \in 1..idx :
             LET model == models_to_load[i]
             IN  (model.db_model_name \notin loaded_models
                    /\ model.output \notin files) =>
                      /\ CallsAt(log, i) = <<>>
                      /\ HasLine(out, "SKIP_NOFILE", i)
        /\ HasOkEvent(log, "QUERY", 0) =>
             registry = loaded_models \cup
               {log[k].name : k \in {j \in 1..Len(log) :
                                        log[j].op = "LOAD" /\ log[j].ok}}
        /\ pc = "done" =>
             \A i \in 1..Len(models_to_load) :
                LET model == models_to_load[i]
                IN  (model.db_model_name \notin loaded_models
                       /\ fault # <<"LOAD", model.db_model_name>>) =>
                         (model.db_model_name \in registry
                            <=> model.output \in files)

(***************************************************************************)
(* C10  Session release: in both tools a session that was opened is closed *)
(* exactly once on every way out of the run (summary, --list, empty plan,  *)
(* declined confirmation, unknown id, a registry call raising), and no     *)
(* call is made on the session after the close.                            *)
(***************************************************************************)
C10_SessionRelease ==
    /\ CountOp(log, "OPEN") <= 1
    /\ CountOp(log, "CLOSE") <= CountOp(log, "OPEN")
    /\ \A k \in 1..Len(log) : log[k].op = "CLOSE" => k = Len(log)
    /\ conn = "open" <=> (CountOp(log, "OPEN") = 1 /\ CountOp(log, "CLOSE") = 0)
    /\ pc = "done" =>
         /\ conn # "open"
         /\ CountOp(log, "CLOSE") = CountOp(log, "OPEN")
         /\ exitCode \in {0, 1}

C10_Witness ==
    /\ tool = "load" /\ pc = "done" /\ exitCode = 1
    /\ FailedCalls(log) # {}
    /\ conn = "closed"
    /\ log[Len(log)].op = "CLOSE"

\* two descriptors of the manifest share an id or share a db_model_name
DuplicateKeys(m) ==
    \E i, j \in 1..Len(m) :
        /\ i < j
        /\ (m[i].id = m[j].id \/ m[i].db_model_name = m[j].db_model_name)

(***************************************************************************)
(* C11  Manifest validation: a manifest whose descriptors have pairwise    *)
(* distinct id and pairwise distinct db_model_name loads; a manifest in    *)
(* which two descriptors share an id or a db_model_name is refused with a  *)
(* configuration error before any database connection, register,         *)
(* deregister or fetch: the process ends with a non-zero status, no        *)
(* session and nothing written.                                            *)
(***************************************************************************)
C11_ManifestValidation ==
    /\ ~DuplicateKeys(manifest) => ~load_config(manifest).raised
    /\ DuplicateKeys(manifest) =>
         /\ log = <<>>
         /\ conn = "none"
         /\ written = {}
         /\ pc = "done" => exitCode = 1

(***************************************************************************)
(* The calls issued by one step, and the registry at the moment of each    *)
(***************************************************************************)
StepEvents ==
    IF Len(log') > Len(log) /\ SubSeq(log', 1, Len(log)) = log
    THEN SubSeq(log', Len(log) + 1, Len(log'))
    ELSE <<>>

\* the registry when the k-th call of the step is issued: the registry
\* before the step with the calls of the step before k applied
RegistryAt(k) ==
    LET before == {j \in 1..(k - 1) : StepEvents[j].ok}
    IN  (registry \ {StepEvents[j].name : j \in {i \in before :
                                              StepEvents[i].op = "DROP"}})
          \cup {StepEvents[j].name : j \in {i \in before :
                                              StepEvents[i].op = "LOAD"}}

(***************************************************************************)
(* C16  Deregister only on registered names: every DROP call issued by     *)
(* the register tool (--force) or by the deregister tool is for a name     *)
(* that is registered at the moment of the call.                           *)
(***************************************************************************)
C16_DropOnlyRegistered ==
    [][\A k \in 1..Len(StepEvents) :
          StepEvents[k].op = "DROP" => StepEvents[k].name \in RegistryAt(k)]_vars

(***************************************************************************)
(* C17  Replace ordering in the register tool: no LOAD call is issued for  *)
(* a name that is registered at the moment of the call; under --force the  *)
(* DROP of a name has completed before the LOAD of that name is issued;    *)
(* and the calls for one descriptor are not interleaved with the calls     *)
(* for another.                                                            *)
(***************************************************************************)
C17_ReplaceOrdering ==
    [][tool = "load" =>
         \A k \in 1..Len(StepEvents) :
            LET e == StepEvents[k]
            IN  /\ e.op = "LOAD" => e.name \notin RegistryAt(k)
                /\ (e.op = "LOAD" /\ args.force /\ e.name \in loaded_models) =>
                     /\ k > 1
                     /\ StepEvents[k - 1] = Event("DROP", e.name, e.idx, TRUE)
                /\ IsCall(e) => e.idx = idx']_vars

\* the counters of load_models.main against the targets gone through
C19_State ==
    tool = "load" =>
        /\ loaded_count + skipped_count <= idx
        /\ HasLine(out, "SUMMARY", 0) =>
             loaded_count + skipped_count = Len(models_to_load)

(***************************************************************************)
(* C19  Register tool counting: every target is counted once, as loaded    *)
(* or as skipped, so a run that reaches its summary has loaded_count +     *)
(* skipped_count equal to the number of targets; and the step of a target  *)
(* counted as skipped leaves the registry membership of its db_model_name  *)
(* as it was, with or without --force.                                     *)
(***************************************************************************)
C19_Counting ==
    [][/\ C19_State'
       /\ (tool = "load" /\ pc = "loop" /\ skipped_count' = skipped_count + 1) =>
            LET db_name == models_to_load[idx'].db_model_name
            IN  (db_name \in registry') <=> (db_name \in registry)]_vars

\* db_model_name of the first descriptor with this id
DbOfId(id) == manifest[get_model_by_id(manifest, id)].db_model_name

(***************************************************************************)
(* C20  Deregister tool with explicit ids, all of them in the manifest: an *)
(* id whose db_model_name is not in the snapshot is left out of the plan   *)
(* with a warning and is not an error; the registered ids are planned in   *)
(* the order given; and with an empty plan the run ends with status 0, no  *)
(* confirmation prompt and no DROP call.                                   *)
(***************************************************************************)
C20_NotLoadedLeftOut ==
    (tool = "drop" /\ ~args.all /\ Resolved /\ ~UnknownRequested) =>
        LET kept == SelectSeq(args.ids, LAMBDA id : DbOfId(id) \in loaded_models)
        IN  /\ models_to_drop = [k \in 1..Len(kept) |-> <<DbOfId(kept[k]), kept[k]>>]
            /\ \A k \in 1..Len(args.ids) :
                 HasLine(out, "WARN_NOTLOADED", k) <=>
                     DbOfId(args.ids[k]) \notin loaded_models
            /\ \A k \in 1..Len(args.ids) : ~HasLine(out, "ERR_NOTFOUND", k)
            /\ kept = <<>> =>
                 /\ CountOp(log, "CONFIRM") = 0
                 /\ CountOp(log, "DROP") = 0
                 /\ pc # "loop"
                 /\ pc = "done" => exitCode = 0

C20_Witness ==
    /\ tool = "drop" /\ ~args.all /\ pc = "done" /\ exitCode = 0
    /\ Len(args.ids) = 2 /\ Len(models_to_drop) = 1
    /\ HasLine(out, "WARN_NOTLOADED", 1)
    /\ models_to_drop[1][2] = args.ids[2]
    /\ dropped_count = 1

\* the iteration of the fetch loop for the target at position idx + 1
FetchCall == tool = "fetch" /\ pc = "loop" /\ idx' = idx + 1

(***************************************************************************)
(* C12  Fetch tool: a download_model call leaves every file that was in    *)
(* the directory before it present and with the content it had; a target   *)
(* whose expected file exists is skipped and nothing is written.           *)
(***************************************************************************)
C12_NoOverwrite ==
    [][FetchCall =>
         /\ \A f \in files : f \in files' /\ (f \in written' => f \in written)
         /\ models_to_download[idx'].output \in files =>
              /\ HasLine(out', "SKIP_EXISTS", idx')
              /\ files' = files
              /\ written' = written]_vars

(***************************************************************************)
(* C13  Fetch tool: when download_model printed [OK] for a target, the     *)
(* target's expected file exists; an archive without an entry at the       *)
(* expected path is not reported as [OK].                                  *)
(***************************************************************************)
C13_OkMeansPresent ==
    tool = "fetch" =>
        \A i \in 1..idx :
            LET model == models_to_download[i]
            IN  /\ HasLine(out, "OK", i) => model.output \in files
                /\ (HasLine(out, "EXTRACTING", i) /\ model.output \notin archive)
                      => ~HasLine(out, "OK", i)

(***************************************************************************)
(* C14  Fetch tool: when the download or the extraction of a target        *)
(* raised, no file is at the target's expected path.                       *)
(***************************************************************************)
C14_NoPartialArtifact ==
    tool = "fetch" =>
        \A i \in 1..idx :
            HasLine(out, "TRACEBACK", i) =>
                models_to_download[i].output \notin files

(***************************************************************************)
(* C15  Fetch tool: when the download or the extraction of the target at   *)
(* position i raised and targets follow it, the run still goes through     *)
(* every target and ends normally.                                         *)
(***************************************************************************)
C15_FetchFailureIsolation ==
    (tool = "fetch" /\ pc = "done"
       /\ \E i \in 1..Len(models_to_download) :
             i < Len(models_to_download) /\ HasLine(out, "TRACEBACK", i)) =>
        /\ idx = Len(models_to_download)
        /\ HasLine(out, "DONE", 0)

(***************************************************************************)
(* C18  Fetch tool: after a download_model call for an archive-packaged    *)
(* target ended, by returning or by raising, the temporary archive         *)
(* <id>_temp.zip is not in the directory.                                  *)
(***************************************************************************)
C18_TempArchiveRemoved ==
    tool = "fetch" =>
        \A i \in 1..idx :
            EndsWithZip(models_to_download[i].url) =>
                TempZip(models_to_download[i].id) \notin files

====
